---- MODULE Spec2Model ----
(***************************************************************************)
(* BirdApp: the remote-inference client (call_hf_inference in main.py,     *)
(* call_hf in service.py), the /predict handlers built on it and the       *)
(* /VerifyBirdImage handler of main.py.                                    *)
(*                                                                         *)
(* One behaviour is one call: either a direct call of the client with an   *)
(* arbitrary retries argument, or one HTTP request to /predict or          *)
(* /VerifyBirdImage.  The backends are the environment: every POST draws   *)
(* its outcome (a status with a body, or a network failure) from small     *)
(* sets.                                                                   *)
(*                                                                         *)
(* Numbers: scores are in tenths (9 is 0.9); label confidences are in      *)
(* thousandths (90000 is 90.0 percent, 900 is 0.900).                      *)
(*                                                                         *)
(* The local-model variant (application.py) has a specification of its     *)
(* own, SpecApp: several requests, served by the framework's threads, run  *)
(* the before-request hook and the view function line by line over the     *)
(* module globals processor and model.                                     *)
(***************************************************************************)
EXTENDS Integers, Sequences, FiniteSets, TLC

VARIABLES
    variant,        \* "main" (main.py) or "service" (service.py)
    mode,           \* "client": direct call; "predict", "verify": a request
    jsonErrIsReqExc,\* the installed requests makes JSONDecodeError a RequestException
    upload,         \* the request's file part
    pc,             \* position of the call
    retries,        \* the client's retries argument
    attempt,        \* loop variable of the client
    delay,          \* current backoff delay
    last_err,       \* last_err of the client
    posts,          \* number of requests.post calls made
    slept,          \* total of the time.sleep arguments
    n503,           \* number of POSTs answered 503
    nNet,           \* number of POSTs that raised a network failure
    nDecode,        \* number of 2xx answers whose r.json() raised a RequestException
    last,           \* outcome of the latest POST: status, body, exception
    result,         \* (payload, code) returned by the client
    raised,         \* exception that left the client, or NoExc
    rekCalls,       \* number of detect_labels calls made
    labels,         \* the labels detect_labels answered
    rekRaised,      \* the exception detect_labels raised, or NoExc
    resp,           \* the HTTP response of the request
    processor,      \* application.py: the global processor
    model,          \* application.py: the global model
    reqs,           \* application.py: route and file part of each request
    apc,            \* application.py: position of each request
    seen,           \* application.py: the globals as each hook read them at line 15
    used,           \* application.py: the globals as each view read them at lines 39, 41
    aresp           \* application.py: the HTTP response of each request

vars == <<variant, mode, jsonErrIsReqExc, upload, pc, retries, attempt, delay,
          last_err, posts, slept, n503, nNet, nDecode, last, result,
          raised, rekCalls, labels, rekRaised, resp>>

appVars == <<processor, model, reqs, apc, seen, used, aresp>>

----------------------------------------------------------------------------
(* Bounds of the model *)

MaxRetries == 6     \* largest retries argument of a direct client call
MaxLen == 6         \* longest list of well-formed records in a body
MaxOddLen == 2      \* longest list drawn from every kind of item
MaxLabels == 2      \* most labels in a detect_labels answer
MaxRequests == 2    \* requests sent to application.py

----------------------------------------------------------------------------
(* Program constants *)

InitialDelay == 2
DelayCap == 16
DefaultRetries == 3
TopK == 5
BIRD_MIN_CONF == 850

----------------------------------------------------------------------------
(* JSON values and HTTP bodies *)

Absent == "<absent>"
NoCode == -1
NoExc == "none"
NetFail == 0

\* One element of a JSON list: a dict with optional label and score, or
\* something that is not a dict.  skind tells what float() makes of the
\* score: "num" converts, "missing" takes the 0.0 default, "bad" raises.
Item(isdict, label, skind, score) ==
    [isdict |-> isdict, label |-> label, skind |-> skind, score |-> score]

GoodItems ==
    { Item(TRUE, "Robin", "num", 9),
      Item(TRUE, "Wren", "missing", 0) }

OddItems ==
    GoodItems \cup
    { Item(TRUE, "Cardinal", "num", 9),
      Item(TRUE, "Cardinal", "num", 7),
      Item(TRUE, "Robin", "bad", 0),
      Item(FALSE, Absent, "missing", 0) }

SeqsUpTo(S, n) == UNION { [1..k -> S] : k \in 0..n }

ItemLists == SeqsUpTo(GoodItems, MaxLen) \cup SeqsUpTo(OddItems, MaxOddLen)

\* A JSON value: kind is "object", "list" or "scalar".  An object holds the
\* keys the program reads or writes; Absent / NoCode mark a missing key.
Json(kind, error, status_code, raw, detail, items) ==
    [kind |-> kind, error |-> error, status_code |-> status_code,
     raw |-> raw, detail |-> detail, items |-> items]

JObject(error, status_code, raw, detail) ==
    Json("object", error, status_code, raw, detail, <<>>)

JList(items) == Json("list", Absent, NoCode, Absent, Absent, items)

JScalar == Json("scalar", Absent, NoCode, Absent, Absent, <<>>)

JNone == Json("none", Absent, NoCode, Absent, Absent, <<>>)

\* An HTTP body: its text, and the JSON value it parses to (parses = FALSE
\* when the text is not JSON).
Body(text, parses, json) == [text |-> text, parses |-> parses, json |-> json]

TextBodies == { Body("Service Unavailable", FALSE, JNone) }

ObjectBodies ==
    { Body("{}", TRUE, JObject(Absent, NoCode, Absent, Absent)),
      Body("{error}", TRUE, JObject("backend error", NoCode, Absent, Absent)),
      Body("{error,status_code}", TRUE, JObject("backend error", 999, Absent, Absent)) }

ScalarBodies == { Body("null", TRUE, JScalar) }

ListBodies == { Body("[...]", TRUE, JList(l)) : l \in ItemLists }

Bodies == TextBodies \cup ObjectBodies \cup ScalarBodies \cup ListBodies

\* The client never looks into a list: a direct call is tried on the
\* shortest ones only.
ClientBodies ==
    TextBodies \cup ObjectBodies \cup ScalarBodies
        \cup { b \in ListBodies : Len(b.json.items) <= 1 }

BodiesFor(m) == IF m = "client" THEN ClientBodies ELSE Bodies

NoBody == Body("", FALSE, JNone)

\* What one requests.post call came to: the status and body of the answer,
\* or the exception raised (status NetFail when there was no answer).
Outcome(st, b, e) == [status |-> st, body |-> b, exc |-> e]

NoOutcome == Outcome(NoCode, NoBody, NoExc)

\* Bodies of a 503: only their text is read.
Bodies503 == { Body("Model is loading", FALSE, JNone) }

Statuses == { 200, 201, 302, 401, 403, 429, 503 }

NetErrors == { "ConnectionError", "ReadTimeout" }

----------------------------------------------------------------------------
(* The inference client *)

Min(a, b) == IF a <= b THEN a ELSE b

NextDelayUncapped(d) == d * 2

NextDelayCap32(d) == Min(d * 2, 32)

\* delay = min(delay * 2, 16)
NextDelay(d) == Min(d * 2, DelayCap)

MoreAttemptsOffByOne(a, r) == a < r

\* for attempt in range(1, retries + 1)
MoreAttempts(a, r) == a <= r

\* main.py: not (200 <= r.status_code < 300)
\* service.py: r.status_code < 200 or r.status_code >= 300
IsNon2xx(v, s) ==
    IF v = "main" THEN ~(200 <= s /\ s < 300)
    ELSE s < 200 \/ s >= 300

\* body.setdefault("error", ...); body.setdefault("status_code", ...)
SetDefaults(j, s) ==
    [j EXCEPT !.error = IF @ = Absent THEN "HuggingFace request failed" ELSE @,
              !.status_code = IF @ = NoCode THEN s ELSE @]

\* try: body = r.json()  except Exception: body = {"raw": r.text}
ErrorBody(b) ==
    IF b.parses THEN b.json ELSE JObject(Absent, NoCode, b.text, Absent)

ExhaustedResultBackendStatus(le) ==
    [payload |-> JObject("HuggingFace request exception or timeout", NoCode, Absent, le),
     code |-> 503]

\* return {"error": "...", "detail": last_err}, 502
ExhaustedResult(le) ==
    [payload |-> JObject("HuggingFace request exception or timeout", NoCode, Absent, le),
     code |-> 502]

NoResult == [payload |-> JNone, code |-> NoCode]

\* An HTTP response of a handler.  json: the body is JSON; error: the
\* top-level "error" key of the body (Absent when there is none, Null for
\* null); body: the payload when the body is the client's payload itself;
\* raw: the payload under the "raw" key.
Response(status, json, error, body, raw, predicted_class, confidence, topK, ok, label, message) ==
    [status |-> status, json |-> json, error |-> error, body |-> body, raw |-> raw,
     predicted_class |-> predicted_class, confidence |-> confidence, topK |-> topK,
     ok |-> ok, label |-> label, message |-> message]

NoResp == Response(NoCode, FALSE, Absent, JNone, JNone, Absent, 0, <<>>, FALSE, Absent, Absent)

\* The retryable branch shared by a 503 answer and a RequestException:
\* last_err = ...; time.sleep(delay); delay = min(delay * 2, 16); next attempt
Retry(err, st, b, e) ==
    /\ last_err' = err
    /\ slept' = slept + delay
    /\ delay' = NextDelay(delay)
    /\ attempt' = attempt + 1
    /\ last' = Outcome(st, b, e)
    /\ posts' = posts + 1
    /\ UNCHANGED <<pc, result, raised>>

InLoop == pc = "loop" /\ MoreAttempts(attempt, retries)

\* r.status_code == 503
Post503 ==
    /\ InLoop
    /\ \E b \in Bodies503 : Retry(b.text, 503, b, NoExc)
    /\ n503' = n503 + 1
    /\ UNCHANGED <<nNet, nDecode>>
    /\ UNCHANGED <<appVars, variant, mode, jsonErrIsReqExc, upload, retries, rekCalls, labels, rekRaised, resp>>

\* requests.post raises a RequestException
PostNetworkFailure ==
    /\ InLoop
    /\ \E e \in NetErrors : Retry(e, NetFail, NoBody, e)
    /\ nNet' = nNet + 1
    /\ UNCHANGED <<n503, nDecode>>
    /\ UNCHANGED <<appVars, variant, mode, jsonErrIsReqExc, upload, retries, rekCalls, labels, rekRaised, resp>>

\* any other non-2xx status: the body is returned with the status, unless
\* the parsed body has no setdefault (a list or a scalar): AttributeError
PostErrorStatus ==
    /\ InLoop
    /\ \E s \in Statuses \ {503}, b \in BodiesFor(mode) :
        /\ IsNon2xx(variant, s)
        /\ posts' = posts + 1
        /\ last' = Outcome(s, b, NoExc)
        /\ IF ErrorBody(b).kind = "object"
           THEN /\ result' = [payload |-> SetDefaults(ErrorBody(b), s), code |-> s]
                /\ pc' = "returned"
                /\ UNCHANGED raised
           ELSE /\ raised' = "AttributeError"
                /\ pc' = "raised"
                /\ UNCHANGED result
    /\ UNCHANGED <<appVars, variant, mode, jsonErrIsReqExc, upload, retries, attempt, delay,
                   last_err, slept, n503, nNet, nDecode, rekCalls, labels, rekRaised, resp>>

\* 2xx: return r.json(), r.status_code.  A body that is not JSON makes
\* r.json() raise: a RequestException in requests >= 2.27 (retried like a
\* network failure), a plain ValueError before (leaves the client).
PostSuccess ==
    /\ InLoop
    /\ \E s \in Statuses \ {503}, b \in BodiesFor(mode) :
        /\ ~IsNon2xx(variant, s)
        /\ IF b.parses
           THEN /\ result' = [payload |-> b.json, code |-> s]
                /\ pc' = "returned"
                /\ posts' = posts + 1
                /\ last' = Outcome(s, b, NoExc)
                /\ UNCHANGED <<raised, attempt, delay, last_err, slept, nDecode>>
           ELSE IF jsonErrIsReqExc
           THEN /\ Retry("JSONDecodeError", s, b, "JSONDecodeError")
                /\ nDecode' = nDecode + 1
           ELSE /\ raised' = "JSONDecodeError"
                /\ pc' = "raised"
                /\ posts' = posts + 1
                /\ last' = Outcome(s, b, NoExc)
                /\ UNCHANGED <<result, attempt, delay, last_err, slept, nDecode>>
    /\ UNCHANGED <<n503, nNet>>
    /\ UNCHANGED <<appVars, variant, mode, jsonErrIsReqExc, upload, retries, rekCalls, labels, rekRaised, resp>>

\* the loop is over: return the 502 result
Exhausted ==
    /\ pc = "loop"
    /\ ~MoreAttempts(attempt, retries)
    /\ result' = ExhaustedResult(last_err)
    /\ pc' = "returned"
    /\ UNCHANGED <<appVars, variant, mode, jsonErrIsReqExc, upload, retries, attempt, delay,
                   last_err, posts, slept, n503, nNet, nDecode, last,
                   raised, rekCalls, labels, rekRaised, resp>>

\* entry of the client: delay = 2; last_err = None
EnterClient(r) ==
    /\ retries' = r
    /\ attempt' = 1
    /\ delay' = InitialDelay
    /\ last_err' = Absent
    /\ pc' = "loop"

\* a direct call of the client
CallClient ==
    /\ pc = "idle"
    /\ mode = "client"
    /\ \E r \in 0..MaxRetries : EnterClient(r)
    /\ UNCHANGED <<appVars, variant, mode, jsonErrIsReqExc, upload, posts, slept, n503,
                   nNet, nDecode, last, result, raised, rekCalls, labels, rekRaised, resp>>

----------------------------------------------------------------------------
(* The upload and its validation *)

Null == "<null>"

Uploads ==
    { [present |-> FALSE, bytes |-> "none"],
      [present |-> TRUE, bytes |-> "empty"],
      [present |-> TRUE, bytes |-> "text"],
      [present |-> TRUE, bytes |-> "png"] }

ImageVerifiesAnything(bytes) == TRUE

\* Image.open(io.BytesIO(image_bytes)).verify() does not raise
ImageVerifies(bytes) == bytes = "png"

\* jsonify({"error": msg}), status
ErrorResponse(msg, status) ==
    Response(status, TRUE, msg, JNone, JNone, Absent, 0, <<>>, FALSE, Absent, Absent)

\* an exception leaves the view function: the framework answers 500 with
\* its own HTML page
CrashResponse ==
    Response(500, FALSE, Absent, JNone, JNone, Absent, 0, <<>>, FALSE, Absent, Absent)

----------------------------------------------------------------------------
(* /predict *)

\* float(x.get("score", 0.0)) raises: x is not a dict, or the score does
\* not convert
KeyRaises(x) == ~x.isdict \/ x.skind = "bad"

\* float(x.get("score", 0.0))
Key(x) == IF x.skind = "num" THEN x.score ELSE 0

RECURSIVE MaxFrom(_, _, _)
\* max(payload, key=...): scan left to right, keep the first largest
MaxFrom(items, i, best) ==
    IF i > Len(items) THEN best
    ELSE MaxFrom(items, i + 1, IF Key(items[i]) > Key(best) THEN items[i] ELSE best)

RECURSIVE MaxFromLast(_, _, _)
MaxFromLast(items, i, best) ==
    IF i > Len(items) THEN best
    ELSE MaxFromLast(items, i + 1, IF Key(items[i]) >= Key(best) THEN items[i] ELSE best)

PyMaxLast(items) == MaxFromLast(items, 2, items[1])

PyMax(items) == MaxFrom(items, 2, items[1])

RECURSIVE InsertDesc(_, _)
\* put x behind every element whose key is not smaller (stable)
InsertDesc(sorted, x) ==
    IF sorted = <<>> THEN <<x>>
    ELSE IF Key(Head(sorted)) >= Key(x)
         THEN <<Head(sorted)>> \o InsertDesc(Tail(sorted), x)
         ELSE <<x>> \o sorted

RECURSIVE SortFrom(_, _, _)
SortFrom(items, i, sorted) ==
    IF i > Len(items) THEN sorted
    ELSE SortFrom(items, i + 1, InsertDesc(sorted, items[i]))

\* sorted(payload, key=..., reverse=True)
PySortedDesc(items) == SortFrom(items, 1, <<>>)

\* s[:n]
Take(s, n) == SubSeq(s, 1, Min(n, Len(s)))

\* main.py: if code != 200            service.py: if code >= 400
Propagates(v, code) == IF v = "main" THEN code # 200 ELSE code >= 400

\* isinstance(payload, list) and payload and isinstance(payload[0], dict)
ExpectedShape(p) == p.kind = "list" /\ Len(p.items) > 0 /\ p.items[1].isdict

\* jsonify(payload), code
PassThrough(p, code) ==
    Response(code, TRUE, IF p.kind = "object" THEN p.error ELSE Absent,
             p, JNone, Absent, 0, <<>>, FALSE, Absent, Absent)

\* jsonify({"error": msg, "raw": payload}), 502
RawResponse(msg, p) ==
    Response(502, TRUE, msg, JNone, p, Absent, 0, <<>>, FALSE, Absent, Absent)

\* the part of predict after the client has returned
PredictResponse(v, p, code) ==
    IF Propagates(v, code) THEN PassThrough(p, code)
    ELSE IF ~ExpectedShape(p) THEN RawResponse("Unexpected HF response", p)
    ELSE IF \E i \in 1..Len(p.items) : KeyRaises(p.items[i])
         THEN RawResponse("Could not interpret HF scores", p)
    ELSE Response(200, TRUE, Absent, JNone, JNone,
                  PyMax(p.items).label, Key(PyMax(p.items)),
                  Take(PySortedDesc(p.items), TopK), FALSE, Absent, Absent)

UnchangedClient == UNCHANGED <<retries, attempt, delay, last_err, posts, slept,
                               n503, nNet, nDecode, last, result, raised>>

\* "file" not in request.files
PredictMissingFile ==
    /\ pc = "idle" /\ mode = "predict"
    /\ ~upload.present
    /\ resp' = ErrorResponse("No file uploaded. Use form-data with key 'file'.", 400)
    /\ pc' = "done"
    /\ UnchangedClient
    /\ UNCHANGED <<appVars, variant, mode, jsonErrIsReqExc, upload, rekCalls, labels, rekRaised>>

\* the upload does not verify as an image
PredictInvalidImage ==
    /\ pc = "idle" /\ mode = "predict"
    /\ upload.present /\ ~ImageVerifies(upload.bytes)
    /\ resp' = ErrorResponse("Invalid image data", 400)
    /\ pc' = "done"
    /\ UnchangedClient
    /\ UNCHANGED <<appVars, variant, mode, jsonErrIsReqExc, upload, rekCalls, labels, rekRaised>>

\* payload, code = call_hf_inference(image_bytes)
PredictCallClient ==
    /\ pc = "idle" /\ mode = "predict"
    /\ upload.present /\ ImageVerifies(upload.bytes)
    /\ EnterClient(DefaultRetries)
    /\ UNCHANGED <<appVars, variant, mode, jsonErrIsReqExc, upload, posts, slept, n503,
                   nNet, nDecode, last, result, raised, rekCalls, labels, rekRaised, resp>>

\* the client has returned: map its result
PredictRespond ==
    /\ pc = "returned" /\ mode = "predict"
    /\ resp' = PredictResponse(variant, result.payload, result.code)
    /\ pc' = "done"
    /\ UnchangedClient
    /\ UNCHANGED <<appVars, variant, mode, jsonErrIsReqExc, upload, rekCalls, labels, rekRaised>>

\* the client has raised: nothing in predict catches it
PredictCrash ==
    /\ pc = "raised" /\ mode = "predict"
    /\ resp' = CrashResponse
    /\ pc' = "done"
    /\ UnchangedClient
    /\ UNCHANGED <<appVars, variant, mode, jsonErrIsReqExc, upload, rekCalls, labels, rekRaised>>

----------------------------------------------------------------------------
(* /VerifyBirdImage (main.py) *)

Label(name, conf, parents) == [Name |-> name, Confidence |-> conf, Parents |-> parents]

LabelNames == { "BIRD", "Swallow", "Dog", "" }

ParentSets == { {}, {"Bird"}, {"Animal"} }

Confidences == { 0, 40000, 85000, 90000 }

Labels == { Label(n, c, ps) : n \in LabelNames, c \in Confidences, ps \in ParentSets }

LabelLists == SeqsUpTo(Labels, MaxLabels)

\* str.lower()
Lower(s) ==
    CASE s = "BIRD" -> "bird"
      [] s = "Bird" -> "bird"
      [] s = "Swallow" -> "swallow"
      [] s = "Dog" -> "dog"
      [] s = "Animal" -> "animal"
      [] OTHER -> s

ToFractionForgotten(c) == c

\* float(lab.get("Confidence", 0.0)) / 100.0
ToFraction(c) == c \div 100

IsBirdishAnything(lab) == TRUE

\* name.lower() == "bird" or "bird" in parents
IsBirdish(lab) ==
    Lower(lab.Name) = "bird" \/ "bird" \in { Lower(q) : q \in lab.Parents }

RECURSIVE ScanLabels(_, _, _)
\* the for loop over labels; best is (best_conf, best_name)
ScanLabels(ls, i, best) ==
    IF i > Len(ls) THEN best
    ELSE ScanLabels(ls, i + 1,
           IF IsBirdish(ls[i]) /\ ToFraction(ls[i].Confidence) > best.conf
           THEN [conf |-> ToFraction(ls[i].Confidence), name |-> ls[i].Name]
           ELSE best)

\* best_name and best_conf >= BIRD_MIN_CONF
IsBird(best) == best.name # Null /\ best.name # "" /\ best.conf >= BIRD_MIN_CONF

\* the part of _verify_with_rekognition after detect_labels has answered
VerifyLabels(ls) ==
    LET best == ScanLabels(ls, 1, [conf |-> 0, name |-> Null])
    IN IF IsBird(best)
       THEN Response(200, TRUE, Null, JNone, JNone, Absent, best.conf, <<>>,
                     TRUE, best.name, "")
       ELSE Response(422, TRUE, "not_bird", JNone, JNone, Absent, best.conf, <<>>,
                     FALSE, Null, "Doesn't look like a bird")

VerifyBackendErrorAsNotBird(e) ==
    Response(422, TRUE, "not_bird", JNone, JNone, Absent, 0, <<>>,
             FALSE, Null, e)

\* detect_labels raised
VerifyBackendError(e) ==
    Response(502, TRUE, "rekognition_error", JNone, JNone, Absent, 0, <<>>,
             FALSE, Null, e)

VerifyMissingFile ==
    /\ pc = "idle" /\ mode = "verify"
    /\ ~upload.present
    /\ resp' = ErrorResponse("No file uploaded. Use form-data with key 'file'.", 400)
    /\ pc' = "done"
    /\ UnchangedClient
    /\ UNCHANGED <<appVars, variant, mode, jsonErrIsReqExc, upload, rekCalls, labels, rekRaised>>

VerifyInvalidImage ==
    /\ pc = "idle" /\ mode = "verify"
    /\ upload.present /\ ~ImageVerifies(upload.bytes)
    /\ resp' = ErrorResponse("Invalid image data", 400)
    /\ pc' = "done"
    /\ UnchangedClient
    /\ UNCHANGED <<appVars, variant, mode, jsonErrIsReqExc, upload, rekCalls, labels, rekRaised>>

\* the one detect_labels call raises
VerifyRekognitionFails ==
    /\ pc = "idle" /\ mode = "verify"
    /\ upload.present /\ ImageVerifies(upload.bytes)
    /\ rekCalls' = rekCalls + 1
    /\ \E e \in NetErrors : rekRaised' = e /\ resp' = VerifyBackendError(e)
    /\ pc' = "done"
    /\ UnchangedClient
    /\ UNCHANGED <<appVars, variant, mode, jsonErrIsReqExc, upload, labels>>

\* the one detect_labels call answers with labels
VerifyRekognitionAnswers ==
    /\ pc = "idle" /\ mode = "verify"
    /\ upload.present /\ ImageVerifies(upload.bytes)
    /\ rekCalls' = rekCalls + 1
    /\ \E ls \in LabelLists : labels' = ls /\ resp' = VerifyLabels(ls)
    /\ pc' = "done"
    /\ UnchangedClient
    /\ UNCHANGED <<appVars, variant, mode, jsonErrIsReqExc, upload, rekRaised>>

----------------------------------------------------------------------------
(* The specification *)

(* application.py: the local model *)

\* processor = None, model = None.  A loaded object is named by the request
\* whose hook loaded it.
None == 0

Reqs == 1 .. MaxRequests

AppUploads ==
    { [present |-> FALSE, bytes |-> "none"],
      [present |-> TRUE, bytes |-> "text"],
      [present |-> TRUE, bytes |-> "png"] }

\* GET / and POST /predict
AppRequests ==
    { [route |-> "/", upload |-> [present |-> FALSE, bytes |-> "none"]] }
    \cup { [route |-> "/predict", upload |-> u] : u \in AppUploads }

\* Image.open(request.files["file"].stream).convert("RGB") does not raise
ImageOpens(bytes) == bytes = "png"

AppResponse(status, error, predicted_class) ==
    [status |-> status, error |-> error, predicted_class |-> predicted_class]

NoAppResp == AppResponse(NoCode, Absent, Absent)

NeedsLoadAlways(p, m) == TRUE

NeedsLoadBoth(p, m) == p = None /\ m = None

\* if processor is None or model is None  (load_model)
NeedsLoad(p, m) == p = None \/ m = None

\* if processor is None or model is None  (predict)
ModelNotReady(p, m) == p = None \/ m = None

\* the state of Init that the requests to application.py leave alone
Idle ==
    /\ pc = "idle"
    /\ retries = 0
    /\ attempt = 0
    /\ delay = 0
    /\ last_err = Absent
    /\ posts = 0
    /\ slept = 0
    /\ n503 = 0
    /\ nNet = 0
    /\ nDecode = 0
    /\ last = NoOutcome
    /\ labels = <<>>
    /\ rekRaised = NoExc
    /\ result = NoResult
    /\ raised = NoExc
    /\ rekCalls = 0
    /\ resp = NoResp

\* the module as imported: no request yet
AppIdle ==
    /\ processor = None
    /\ model = None
    /\ apc = [q \in Reqs |-> "waiting"]
    /\ seen = [q \in Reqs |-> <<None, None>>]
    /\ used = [q \in Reqs |-> <<None, None>>]
    /\ aresp = [q \in Reqs |-> NoAppResp]

\* the request ends with a response
Answer(q, r) ==
    /\ aresp' = [aresp EXCEPT ![q] = r]
    /\ apc' = [apc EXCEPT ![q] = "done"]

\* the request arrives and its before-request hook tests the globals
LoadModelCheck(q) ==
    /\ apc[q] = "waiting"
    /\ seen' = [seen EXCEPT ![q] = <<processor, model>>]
    /\ apc' = [apc EXCEPT ![q] =
                 IF NeedsLoad(processor, model) THEN "line18" ELSE "view"]
    /\ UNCHANGED <<processor, model, reqs, used, aresp>>
    /\ UNCHANGED vars

\* processor = AutoImageProcessor.from_pretrained(MODEL_ID)
LoadProcessor(q) ==
    /\ apc[q] = "line18"
    /\ processor' = q
    /\ apc' = [apc EXCEPT ![q] = "line19"]
    /\ UNCHANGED <<model, reqs, seen, used, aresp>>
    /\ UNCHANGED vars

\* from_pretrained raises at line 18: the framework answers 500 and the
\* view function does not run
LoadProcessorFails(q) ==
    /\ apc[q] = "line18"
    /\ Answer(q, AppResponse(500, Absent, Absent))
    /\ UNCHANGED <<processor, model, reqs, seen, used>>
    /\ UNCHANGED vars

\* model = AutoModelForImageClassification.from_pretrained(MODEL_ID)
LoadModel(q) ==
    /\ apc[q] = "line19"
    /\ model' = q
    /\ apc' = [apc EXCEPT ![q] = "view"]
    /\ UNCHANGED <<processor, reqs, seen, used, aresp>>
    /\ UNCHANGED vars

\* from_pretrained raises at line 19
LoadModelFails(q) ==
    /\ apc[q] = "line19"
    /\ Answer(q, AppResponse(500, Absent, Absent))
    /\ UNCHANGED <<processor, model, reqs, seen, used>>
    /\ UNCHANGED vars

\* health_check
HealthCheck(q) ==
    /\ apc[q] = "view" /\ reqs[q].route = "/"
    /\ Answer(q, AppResponse(200, Absent, Absent))
    /\ UNCHANGED <<processor, model, reqs, seen, used>>
    /\ UNCHANGED vars

\* predict, lines 28-29: "ensure model is loaded"
AppPredictEnter(q) ==
    /\ apc[q] = "view" /\ reqs[q].route = "/predict"
    /\ IF ModelNotReady(processor, model)
         THEN Answer(q, AppResponse(503, "Model not ready", Absent))
         ELSE /\ apc' = [apc EXCEPT ![q] = "line31"]
              /\ UNCHANGED aresp
    /\ UNCHANGED <<processor, model, reqs, seen, used>>
    /\ UNCHANGED vars

\* "file" not in request.files
AppPredictMissingFile(q) ==
    /\ apc[q] = "line31"
    /\ ~reqs[q].upload.present
    /\ Answer(q, AppResponse(400, "No file uploaded", Absent))
    /\ UNCHANGED <<processor, model, reqs, seen, used>>
    /\ UNCHANGED vars

\* Image.open raises
AppPredictInvalidImage(q) ==
    /\ apc[q] = "line31"
    /\ reqs[q].upload.present
    /\ ~ImageOpens(reqs[q].upload.bytes)
    /\ Answer(q, AppResponse(400, "Invalid image", Absent))
    /\ UNCHANGED <<processor, model, reqs, seen, used>>
    /\ UNCHANGED vars

\* inputs = processor(images=image, return_tensors="pt")
AppPredictInputs(q) ==
    /\ apc[q] = "line31"
    /\ reqs[q].upload.present
    /\ ImageOpens(reqs[q].upload.bytes)
    /\ used' = [used EXCEPT ![q] = <<processor, @[2]>>]
    /\ apc' = [apc EXCEPT ![q] = "line41"]
    /\ UNCHANGED <<processor, model, reqs, seen, aresp>>
    /\ UNCHANGED vars

\* outputs = model(**inputs) ... return jsonify({"predicted_class": label})
AppPredictOutputs(q) ==
    /\ apc[q] = "line41"
    /\ used' = [used EXCEPT ![q] = <<@[1], model>>]
    /\ Answer(q, AppResponse(200, Absent, "label"))
    /\ UNCHANGED <<processor, model, reqs, seen>>
    /\ UNCHANGED vars

----------------------------------------------------------------------------
Init ==
    /\ variant \in { "main", "service" }
    /\ mode \in { "client", "predict", "verify" }
    /\ mode = "verify" => variant = "main"
    /\ jsonErrIsReqExc \in BOOLEAN
    /\ upload \in Uploads
    /\ mode = "client" => upload = [present |-> TRUE, bytes |-> "png"]
    /\ Idle
    /\ reqs = [q \in Reqs |-> [route |-> "/", upload |-> [present |-> FALSE, bytes |-> "none"]]]
    /\ AppIdle

Next ==
    \/ CallClient
    \/ Post503
    \/ PostNetworkFailure
    \/ PostErrorStatus
    \/ PostSuccess
    \/ Exhausted
    \/ PredictMissingFile
    \/ PredictInvalidImage
    \/ PredictCallClient
    \/ PredictRespond
    \/ PredictCrash
    \/ VerifyMissingFile
    \/ VerifyInvalidImage
    \/ VerifyRekognitionFails
    \/ VerifyRekognitionAnswers

Spec == Init /\ [][Next]_vars

\* application.py serving MaxRequests requests, in any order and overlap
AppInit ==
    /\ variant = "application"
    /\ mode = "predict"
    /\ jsonErrIsReqExc = TRUE
    /\ upload = [present |-> FALSE, bytes |-> "none"]
    /\ Idle
    /\ reqs \in [Reqs -> AppRequests]
    /\ AppIdle

AppNext ==
    \E q \in Reqs :
        \/ LoadModelCheck(q)
        \/ LoadProcessor(q)
        \/ LoadProcessorFails(q)
        \/ LoadModel(q)
        \/ LoadModelFails(q)
        \/ HealthCheck(q)
        \/ AppPredictEnter(q)
        \/ AppPredictMissingFile(q)
        \/ AppPredictInvalidImage(q)
        \/ AppPredictInputs(q)
        \/ AppPredictOutputs(q)

SpecApp == AppInit /\ [][AppNext]_appVars

TypeOK ==
    /\ pc \in { "idle", "loop", "returned", "raised", "done" }
    /\ posts \in 0..MaxRetries
    /\ delay \in 0..DelayCap

----------------------------------------------------------------------------
(* Vocabulary of the properties *)

\* the client has been entered and has left its loop
ClientOver == attempt > 0 /\ pc # "loop"

\* the client has returned a (payload, status) pair
ClientReturned == ClientOver /\ raised = NoExc

\* the i-th delay of the schedule 2, 4, 8, 16, 16, ...
Schedule(i) == IF i >= 4 THEN 16 ELSE 2 ^ i

RECURSIVE SumDelays(_)
SumDelays(k) == IF k = 0 THEN 0 ELSE SumDelays(k - 1) + Schedule(k)

Is2xx(s) == 200 <= s /\ s < 300

\* the latest POST was answered, with a status that is neither 2xx nor 503
AnsweredError == last.status \notin {NoCode, NetFail, 503} /\ ~Is2xx(last.status)

\* every POST made so far ended in a retryable way
AllFailed == posts = n503 + nNet + nDecode

\* what the latest failed POST left as its detail
FailureDetail ==
    IF posts = 0 THEN Absent
    ELSE IF last.status = NetFail THEN last.exc
    ELSE IF last.status = 503 THEN last.body.text
    ELSE last.exc

ValidUpload == upload.present /\ upload.bytes = "png"

\* a non-empty list of label/score records whose scores convert
WellFormed(p) ==
    /\ p.kind = "list"
    /\ Len(p.items) > 0
    /\ \A i \in 1..Len(p.items) :
          p.items[i].isdict /\ p.items[i].skind \in {"num", "missing"}

Count(sq, x) == Cardinality({ i \in 1..Len(sq) : sq[i] = x })

Descending(sq) == \A i \in 1..Len(sq) : \A j \in i..Len(sq) : Key(sq[i]) >= Key(sq[j])

\* t is items in descending score order cut to at most n entries
IsTopOf(t, items, n) ==
    /\ Len(t) = Min(n, Len(items))
    /\ Descending(t)
    /\ \A i \in 1..Len(t) : Count(t, t[i]) <= Count(items, t[i])
    /\ \A i \in 1..Len(items) :
          (Len(t) > 0 /\ Key(items[i]) > Key(t[Len(t)]))
             => Count(t, items[i]) = Count(items, items[i])

\* the body of the response has an "error" key
HasErrorField == resp.json /\ resp.error # Absent

----------------------------------------------------------------------------
(* C1..C10 *)

\* C1: the inference client never raises: whatever the backend answers, no
\* exception leaves call_hf_inference / call_hf.
C1_NeverRaises == raised = NoExc

\* C2: after 503 exactly k < retries times and then 200 (with a JSON body)
\* the client has returned that body with status 200, has made k+1 POSTs and
\* has slept the sum of the first k delays of 2, 4, 8, 16, 16, ...
C2_RetryThenSuccess ==
    (/\ last.status = 200 /\ last.body.parses
     /\ nNet = 0 /\ nDecode = 0 /\ n503 < retries)
    => /\ ClientReturned
       /\ result = [payload |-> last.body.json, code |-> 200]
       /\ posts = n503 + 1
       /\ slept = SumDelays(n503)

C2_Witness ==
    /\ pc = "returned" /\ last.status = 200 /\ last.body.parses
    /\ nNet = 0 /\ nDecode = 0 /\ n503 = 5 /\ slept = 46

\* C3: when every POST is answered 503 the client makes exactly retries
\* POSTs and then returns an error payload with status 502, without raising.
C3_Always503 ==
    (ClientOver /\ n503 = posts)
    => /\ posts = retries
       /\ raised = NoExc
       /\ ~Is2xx(result.code) /\ result.code = 502
       /\ result.payload.kind = "object" /\ result.payload.error # Absent

C3_Witness == pc = "returned" /\ n503 = posts /\ posts = 3 /\ result.code = 502

\* C4: a status that is neither 2xx nor 503 makes the client return at once:
\* no POST and no sleep after it, the status unchanged, the body the parsed
\* body (or the wrapped text) with error and status_code filled in.
C4_ErrorStatusReturned ==
    AnsweredError
    => /\ ClientReturned
       /\ posts = n503 + nNet + nDecode + 1
       /\ slept = SumDelays(posts - 1)
       /\ result.code = last.status
       /\ result.payload.kind = "object"
       /\ result.payload.status_code # NoCode
       /\ IF last.body.parses
          THEN /\ result.payload.raw = Absent
               /\ last.body.json.error # Absent => result.payload.error = last.body.json.error
          ELSE result.payload.raw = last.body.text

\* C5: a network failure is retried: the client sleeps the current delay and
\* goes on to the next attempt; when every attempt has failed it returns 502
\* with an error message and the last failure's detail.
C5_NetworkFailureStep ==
    nNet' = nNet + 1
    => /\ slept' = slept + delay
       /\ posts' = posts + 1
       /\ attempt' = attempt + 1
       /\ pc' = "loop"
       /\ last_err' = last'.exc /\ last'.exc \in NetErrors

C5_ExhaustedResult ==
    (ClientOver /\ AllFailed)
    => /\ posts = retries
       /\ raised = NoExc
       /\ result.code = 502
       /\ result.payload.kind = "object"
       /\ result.payload.error # Absent
       /\ result.payload.detail = FailureDetail

C5_NetworkFailureRetried == []C5_ExhaustedResult /\ [][C5_NetworkFailureStep]_vars

C5_Witness ==
    /\ pc = "returned" /\ AllFailed /\ nNet >= 2 /\ n503 >= 1
    /\ last.status = NetFail /\ result.payload.detail = "ReadTimeout"

\* C6: a request whose upload is missing or is not an image is answered 400
\* and no backend is called; a backend is called only for a valid upload.
C6_ValidateFirst ==
    (mode \in {"predict", "verify"} /\ ~ValidUpload)
    => /\ posts = 0 /\ rekCalls = 0
       /\ pc \in {"idle", "done"}
       /\ pc = "done" => resp.status = 400

C6_Witness ==
    /\ mode = "predict" /\ upload.present /\ upload.bytes = "text"
    /\ pc = "done" /\ resp.status = 400 /\ posts = 0

\* C7: for a valid image and a backend success with a non-empty list of
\* label/score records, /predict answers with predicted_class the label of
\* a maximum-score entry, confidence that score, and topK the list in
\* descending score order cut to 5.
C7_BestAndTopK ==
    (/\ mode = "predict" /\ pc = "done" /\ ValidUpload /\ ClientReturned
     /\ Is2xx(result.code) /\ WellFormed(result.payload))
    => LET items == result.payload.items
       IN /\ \E i \in 1..Len(items) :
                /\ resp.predicted_class = items[i].label
                /\ resp.confidence = Key(items[i])
          /\ \A i \in 1..Len(items) : Key(items[i]) <= resp.confidence
          /\ IsTopOf(resp.topK, items, 5)

\* C8: /predict answers 200 with the prediction for a 2xx result with a
\* well-formed payload, 502 with the raw payload for a 2xx result with any
\* other payload, and 502 for a transport failure.
C8_StatusMapping ==
    (mode = "predict" /\ pc = "done" /\ ClientReturned)
    => /\ (Is2xx(result.code) /\ WellFormed(result.payload))
            => resp.status = 200 /\ resp.predicted_class # Absent
       /\ (Is2xx(result.code) /\ ~WellFormed(result.payload))
            => resp.status = 502 /\ resp.raw = result.payload
       /\ AllFailed => resp.status = 502

\* C9: when the backend's answer is an error status (401, 403, 429, 503)
\* /predict answers with that same status.  Stated for the requests whose
\* client call returned.
C9_StatusPreserved ==
    (/\ mode = "predict" /\ pc = "done" /\ ClientReturned
     /\ last.status \in {401, 403, 429, 503})
    => resp.status = last.status

\* C10: every answer of /predict and /VerifyBirdImage with a status other
\* than 200 is JSON with an error field.
C10_ErrorField ==
    (mode \in {"predict", "verify"} /\ pc = "done" /\ resp.status # 200)
    => HasErrorField

----------------------------------------------------------------------------
(* C11..C14: the verification result *)

\* the request was validated and detect_labels has been called
Verified == mode = "verify" /\ pc = "done" /\ rekCalls > 0

\* the label's name, or one of its parents' names, is "bird" in any case
BirdWords == { "bird", "Bird", "BIRD" }

BirdLike(lab) == lab.Name \in BirdWords \/ lab.Parents \cap BirdWords # {}

BirdLikeAt == { i \in 1..Len(labels) : BirdLike(labels[i]) }

\* the highest confidence, in percent, of a bird-like label (0 without one)
BestBirdPercent ==
    IF BirdLikeAt = {} THEN 0
    ELSE LET i == CHOOSE i \in BirdLikeAt :
                     \A j \in BirdLikeAt : labels[j].Confidence <= labels[i].Confidence
         IN labels[i].Confidence

\* C11: ok is true if and only if some bird-like label came back with a
\* confidence, as a fraction, of at least the threshold.
C11_OkIffBirdLike ==
    Verified
    => (resp.ok <=> \E i \in BirdLikeAt : labels[i].Confidence >= BIRD_MIN_CONF * 100)

\* C12: on success the reported label and confidence are those of a
\* bird-like label of the highest confidence among the bird-like labels,
\* the confidence divided by 100; other labels do not count.
C12_BestBirdLike ==
    (Verified /\ resp.ok)
    => \E i \in BirdLikeAt :
          /\ resp.label = labels[i].Name
          /\ resp.confidence * 100 = labels[i].Confidence
          /\ labels[i].Confidence = BestBirdPercent

C12_Witness ==
    /\ Verified /\ resp.ok /\ resp.label = "Swallow" /\ resp.confidence = 850
    /\ \E i \in 1..Len(labels) : labels[i].Name = "Dog" /\ labels[i].Confidence = 90000

\* C13: detect_labels is called exactly once for a validated request; the
\* status is 200 exactly when ok, 422 exactly when not ok with not_bird, 502
\* exactly when that call failed (not ok with rekognition_error).
C13_OneCallAndStatus ==
    (mode = "verify" /\ pc = "done" /\ ValidUpload)
    => /\ rekCalls = 1 /\ posts = 0
       /\ resp.status = 200 <=> resp.ok
       /\ resp.status = 422 <=> (~resp.ok /\ resp.error = "not_bird")
       /\ resp.status = 502 <=> rekRaised # NoExc
       /\ rekRaised # NoExc <=> (~resp.ok /\ resp.error = "rekognition_error")
       /\ resp.status \in {200, 422, 502}

C13_Witness ==
    /\ mode = "verify" /\ pc = "done" /\ rekCalls = 1
    /\ rekRaised = "ReadTimeout" /\ resp.status = 502

\* C14: when the best bird-like confidence is below the threshold the
\* result is not ok with not_bird and reports that confidence; without any
\* bird-like label it reports 0.
C14_NotBird ==
    (Verified /\ rekRaised = NoExc /\ BestBirdPercent < BIRD_MIN_CONF * 100)
    => /\ ~resp.ok /\ resp.error = "not_bird"
       /\ resp.confidence * 100 = BestBirdPercent
       /\ BirdLikeAt = {} => resp.confidence = 0

C14_Witness ==
    /\ Verified /\ resp.error = "not_bird" /\ resp.confidence = 400
    /\ Len(labels) = 2 /\ labels[1].Name = "Swallow" /\ labels[2].Name = "Dog"
    /\ labels[2].Confidence = 90000

----------------------------------------------------------------------------
(* C15..C17, C19: the retry loop and the two /predict variants *)

\* the number of retryable outcomes so far
Retried == n503 + nNet + nDecode

\* C15: in the retry loop the delay is one of 2, 4, 8, 16: 2 at the start,
\* doubled after each 503 or network failure, never above 16.
C15_DelaySchedule ==
    attempt > 0
    => /\ delay \in {2, 4, 8, 16}
       /\ delay = Schedule(Retried + 1)
       /\ Retried = 0 => delay = 2

C15_Witness ==
    /\ pc = "loop" /\ delay = 16 /\ n503 >= 2 /\ nNet >= 2 /\ Retried >= 5

\* the call is over: the client has left (direct call) or the request has
\* its response
Terminal ==
    \/ pc = "done" /\ resp.status # NoCode
    \/ mode = "client" /\ pc \in {"returned", "raised"}

\* an upper bound of the number of steps the call can still take
StepsLeft ==
    CASE pc = "idle" -> MaxRetries + DefaultRetries + 4
      [] pc = "loop" -> (retries + 1 - attempt) + 2
      [] pc \in {"returned", "raised"} -> IF mode = "client" THEN 0 ELSE 1
      [] OTHER -> 0

\* some step of Next can be taken
CanStep ==
    \/ ENABLED (\/ CallClient \/ Post503 \/ Exhausted
                \/ PredictMissingFile \/ PredictInvalidImage \/ PredictCallClient
                \/ PredictCrash
                \/ VerifyMissingFile \/ VerifyInvalidImage \/ VerifyRekognitionFails)
    \* the guard of PredictRespond, whose assignments are total
    \/ pc = "returned" /\ mode = "predict"

\* the client makes at most retries POSTs (none for retries = 0); a call
\* that is not over can take a step
C16_Bounded ==
    /\ attempt > 0 => posts <= retries /\ posts <= attempt
    /\ (attempt > 0 /\ retries = 0) => posts = 0
    /\ StepsLeft >= 0
    /\ StepsLeft = 0 <=> Terminal
    /\ ~Terminal => CanStep

C16_Nearer == StepsLeft' < StepsLeft

\* every step of a call brings it nearer to its end, so every call ends
C16_Terminates == []C16_Bounded /\ [][C16_Nearer]_vars

\* C16: the client makes at most retries POSTs (none for retries = 0) and
\* the response that ends a /predict request is a success or an error that
\* the handler has mapped, never the framework's answer to an exception
\* that nothing caught.
C16_SuccessOrMappedError ==
    /\ attempt > 0 => posts <= retries
    /\ (attempt > 0 /\ retries = 0) => posts = 0
    /\ (mode = "predict" /\ pc = "done") => resp # CrashResponse

C16_Witness ==
    /\ mode = "predict" /\ pc = "done" /\ posts = 3 /\ retries = 3
    /\ resp.status = 502 /\ nNet > 0

\* entry j comes before entry i in descending score order, earlier first
\* among equal scores
Before(items, j, i) ==
    \/ Key(items[j]) > Key(items[i])
    \/ Key(items[j]) = Key(items[i]) /\ j < i

RankOf(items, i) == Cardinality({ j \in 1..Len(items) : Before(items, j, i) }) + 1

\* C17: in a 200 answer predicted_class and confidence are the label and
\* score of topK[1], and equal scores keep the backend's order, for the best
\* entry and throughout topK.
C17_BestIsFirstOfTopK ==
    (mode = "predict" /\ pc = "done" /\ resp.status = 200)
    => LET items == result.payload.items
       IN /\ Len(resp.topK) >= 1
          /\ resp.predicted_class = resp.topK[1].label
          /\ resp.confidence = Key(resp.topK[1])
          /\ \A i \in 1..Len(items) :
                RankOf(items, i) <= Len(resp.topK)
                   => resp.topK[RankOf(items, i)] = items[i]

C17_Witness ==
    /\ mode = "predict" /\ pc = "done" /\ resp.status = 200
    /\ Len(result.payload.items) = 2
    /\ result.payload.items[1].label = "Cardinal"
    /\ result.payload.items[2].label = "Robin"
    /\ Key(result.payload.items[1]) = Key(result.payload.items[2])
    /\ resp.predicted_class = "Cardinal"

\* C19: for the same upload and the same backend outcomes main.py and
\* service.py answer with the same status and body.  The two clients take
\* the same steps, so the answers are compared on the client's result.
C19_VariantsAgree ==
    /\ \A st \in Statuses : IsNon2xx("main", st) <=> IsNon2xx("service", st)
    /\ (mode = "predict" /\ pc = "done" /\ ClientReturned)
       => PredictResponse("main", result.payload, result.code)
            = PredictResponse("service", result.payload, result.code)

----------------------------------------------------------------------------
(* C18, C20: the requests of application.py *)

\* the request has been answered by the inference of predict
Inferred(q) == reqs[q].route = "/predict" /\ aresp[q].status = 200

\* the objects a request has read from the globals
ReadBy(q) == { seen[q][1], seen[q][2], used[q][1], used[q][2] }

C18_LoadedOnlyIfUnset ==
    \A q \in Reqs :
        /\ apc[q] \in { "line18", "line19" }
           => seen[q][1] = None \/ seen[q][2] = None
        /\ Inferred(q) => used[q][1] \in Reqs /\ used[q][2] \in Reqs

\* the globals are written by the hooks only, at lines 18 and 19, and are
\* never set back to None
C18_WrittenByHooks ==
    /\ processor # None => processor' # None
    /\ model # None => model' # None
    /\ processor' # processor
       => \E q \in Reqs : apc[q] = "line18" /\ apc'[q] = "line19" /\ processor' = q
    /\ model' # model
       => \E q \in Reqs : apc[q] = "line19" /\ apc'[q] = "view" /\ model' = q

C20_NeverNotReady ==
    \A q \in Reqs :
        /\ apc[q] \in { "view", "line31", "line41" }
           => processor # None /\ model # None
        /\ aresp[q].status # 503
        /\ aresp[q].error # "Model not ready"

\* a request that arrived after another request's load of the model had
\* failed (processor set, model unset) has been answered by an inference
C20_Witness ==
    \E q \in Reqs : \E w \in Reqs \ {q} :
        /\ aresp[w].status = 500
        /\ seen[q] = <<w, None>>
        /\ Inferred(q)
        /\ used[q] = <<q, q>>

====
